---- MODULE Spec2Model ----
(***************************************************************************)
(* Model of the macro playback engine of ActRec                            *)
(* (src/ActRec/actrec/functions/shared.py: play, run_queued_macros,        *)
(* execute_render_complete).                                               *)
(*                                                                         *)
(* The host is single threaded: a pass of play runs until its call stack   *)
(* is empty again; timers and the render-complete handler are host         *)
(* callbacks.  The call stack of play is explicit (one frame per call),    *)
(* every step of the interpreter handles one macro of the top frame.       *)
(***************************************************************************)
EXTENDS Integers, Sequences, FiniteSets, TLC

\* ------------------------------------------------------------------ bounds
MaxFlat    == 3   \* longest sequence without structure
MaxBody    == 2   \* longest flat loop body
MaxRepeat  == 2   \* largest RepeatCount / Endnumber
MaxPyIter  == 2   \* most evaluations of a python predicate that yield true
MaxLog     == 18  \* longest history that is followed
MaxAreas   == 2   \* most areas of a category
MaxModes   == 2   \* most modes of an area

\* ------------------------------------------------------- macro descriptions
\* A macro of the action (AR_macro): the command string is represented by
\* what play reads from it: whether it is an ar.event payload, its Type and
\* the fields of the payload.
Cmd(act, fl) ==
    [kind |-> "cmd", active |-> act, fails |-> fl, stype |-> "", n |-> 0, start |-> 0, step |-> 1,
     keep |-> FALSE, objs |-> <<>>, obj |-> "", ui |-> "", lp |-> FALSE, props |-> <<>>]
Event(type) ==
    [kind |-> type, active |-> TRUE, fails |-> FALSE, stype |-> "", n |-> 0, start |-> 0, step |-> 1,
     keep |-> FALSE, objs |-> <<>>, obj |-> "", ui |-> "", lp |-> FALSE, props |-> <<>>]
LoopEvent(st, cnt) ==
    [kind |-> "Loop", active |-> TRUE, fails |-> FALSE, stype |-> st, n |-> cnt, start |-> 0, step |-> 1,
     keep |-> FALSE, objs |-> <<>>, obj |-> "", ui |-> "", lp |-> FALSE, props |-> <<>>]
\* Select Object event: KeepSelection, Objects, Object ("" when the field is absent)
SelectEvent(k, os, o) ==
    [kind |-> "Select Object", active |-> TRUE, fails |-> FALSE, stype |-> "", n |-> 0, start |-> 0,
     step |-> 1, keep |-> k, objs |-> os, obj |-> o, ui |-> "", lp |-> FALSE, props |-> <<>>]

\* a plain command of a macro with ui_type u
CmdIn(u, fl) == [Cmd(TRUE, fl) EXCEPT !.ui = u]
\* bpy.ops.ar.local_play(...) with the properties ps, as extract_properties
\* splits them
LocalPlay(ps) == [Cmd(TRUE, FALSE) EXCEPT !.lp = TRUE, !.props = ps]
\* {"id=\"\"", "index=-1"}
DefaultProps == {"id=\"\"", "index=-1"}
LocalPlayDefault == LocalPlay(<<"id=\"\"", "index=-1">>)
\* property lists of recorded local play commands
LocalPlayProps == {<<"id=\"\"", "index=-1">>, <<"index=-1", "id=\"\"">>,
                   <<"id=\"x\"", "index=-1">>, <<"id=\"\"">>}
\* Run Script event; fl: the script raises
RunScript(fl) == [Event("Run Script") EXCEPT !.fails = fl]

OK     == Cmd(TRUE, FALSE)
FAIL   == Cmd(TRUE, TRUE)
OFF    == Cmd(FALSE, FALSE)
TIMER  == Event("Timer")
RC     == Event("Render Complete")
ENDL   == Event("EndLoop")

RECURSIVE SeqsUpTo(_, _)
SeqsUpTo(S, n) ==
    IF n = 0 THEN {<<>>}
    ELSE LET shorter == SeqsUpTo(S, n - 1)
         IN  shorter \cup {Append(q, x) : q \in shorter, x \in S}

\* sequences the user can have recorded
FlatSeqs   == SeqsUpTo({OK, FAIL, OFF, TIMER, RC, LoopEvent("repeat", 2), ENDL}, MaxFlat) \ {<<>>}
FlatBodies == SeqsUpTo({OK, FAIL, TIMER}, MaxBody)
NestBodies == {x \o <<LoopEvent("repeat", c)>> \o <<OK>> \o <<ENDL>> \o z :
                  x \in {<<>>, <<OK>>}, z \in {<<>>, <<OK>>}, c \in 1..MaxRepeat}
TimerBodies == {x \o <<TIMER>> \o y \o <<TIMER>> \o z :
                  x \in {<<>>, <<OK>>}, y \in {<<>>, <<OK>>}, z \in {<<>>, <<OK>>}}
LoopHeads  == {LoopEvent("repeat", c) : c \in (-1)..MaxRepeat}
                \cup {LoopEvent("count", c) : c \in 0..MaxRepeat}
                \cup {LoopEvent("python", 0)}
LoopSeqs   == {pre \o <<h>> \o b \o <<ENDL>> \o post :
                  pre \in {<<>>, <<OK>>, <<TIMER>>}, h \in LoopHeads,
                  b \in FlatBodies \cup NestBodies \cup TimerBodies,
                  post \in {<<>>, <<OK>>}}
\* a loop before a Render Complete event
QueueSeqs  == {<<h, OK, ENDL, RC, OK>> : h \in LoopHeads}
\* a Timer before a counted loop, a command before the Timer
TimerFirstSeqs == {<<OK, TIMER, LoopEvent("repeat", c), OK, ENDL>> \o post :
                      c \in 1..MaxRepeat, post \in {<<>>, <<OK>>}}

\* the scene: bpy.data.objects holds A, B and C, the active view layer holds
\* A and B; X names no object
DataObjects      == {"A", "B", "C"}
ViewLayerObjects == {"A", "B"}
\* values of the Objects field: names of objects of the view layer and names of
\* no object; values of the Object field
ObjectLists == {<<>>, <<"A", "B">>, <<"A", "X">>, <<"X">>}
ObjectNames == {"", "B", "C", "X"}
SelectSeqs == {pre \o <<SelectEvent(k, os, o)>> \o post :
                  pre \in {<<>>, <<OK>>}, post \in {<<>>, <<OK>>},
                  k \in BOOLEAN, os \in ObjectLists, o \in ObjectNames}
\* plain commands of an action that may run in INDIVIDUAL mode
IndividualSeqs == SeqsUpTo({OK, FAIL}, 2) \ {<<>>}
\* ui types of areas
UiTypes == {"VIEW_3D", "IMAGE_EDITOR"}
\* the windows that may be open: ui_type of the first area of each
WindowLists == {<<>>, <<"VIEW_3D">>, <<"IMAGE_EDITOR">>, <<"IMAGE_EDITOR", "VIEW_3D">>}
\* a command with a ui_type, the guarded local play, a script
UiSeqs     == {pre \o <<CmdIn(u, fl)>> \o post :
                  pre \in {<<>>, <<OK>>}, post \in {<<>>, <<OK>>},
                  u \in UiTypes, fl \in BOOLEAN}
HostSeqs   == {pre \o <<x>> \o post :
                  pre \in {<<>>, <<OK>>}, post \in {<<>>, <<OK>>},
                  x \in {LocalPlay(ps) : ps \in LocalPlayProps}
                          \cup {RunScript(FALSE), RunScript(TRUE)}}
Actions    == FlatSeqs \cup LoopSeqs \cup QueueSeqs \cup TimerFirstSeqs \cup SelectSeqs
                \cup UiSeqs \cup HostSeqs

\* the category of the preferences: its areas, each with a type and modes
AreaTypes  == {"VIEW_3D", "IMAGE_EDITOR"}
ModeTypes  == {"OBJECT", "EDIT_MESH"}
Areas      == {[type |-> ty, modes |-> ms] : ty \in AreaTypes, ms \in SeqsUpTo(ModeTypes, MaxModes)}

ActionType == "local_actions"
ActionId   == "A"

\* optional list arguments of play (None or a list)
None       == [isNone |-> TRUE, list |-> <<>>]
Some(l)    == [isNone |-> FALSE, list |-> l]

\* results of read_category_visibility: not called yet, and the value returned
Unread     == [read |-> FALSE, isNone |-> TRUE, list |-> <<>>]
Returns(r) == [read |-> TRUE, isNone |-> r.isNone, list |-> r.list]
\* ActRec_pref.categories.get(id, None): None or the category with its areas
Categories == {None} \cup {Some(as) : as \in SeqsUpTo(Areas, MaxAreas)}

VARIABLES
    action,                  \* the macros of the action; a macro's id is its index
    actionAlert,             \* action.alert
    macroAlert,              \* ids of the macros with alert = True
    render_complete_macros,  \* shared_data.render_complete_macros
    timers,                  \* continuations registered with bpy.app.timers, not yet fired
    stack,                   \* call stack of play, innermost call last
    result,                  \* what the play call of the user returned
    rets,                    \* values returned by the calls that ended in the last step, innermost first
    log,                     \* history of the playback
    pyTrue,                  \* number of predicate evaluations that were true
    actionRemoved,           \* the action is no longer in the preferences' collection
    macrosRemoved,           \* ids of the macros removed from action.macros
    handler,                 \* how the last run of execute_render_complete ended
    selected,                \* names of the selected objects of the view layer
    activeObject,            \* context.view_layer.objects.active
    execution_mode,          \* action.execution_mode
    windows,                 \* ui_type of the first area of each open window, oldest first
    areaType,                \* context.area.ui_type
    texts,                   \* ids of the macros whose text is in bpy.data.texts
    category,                \* the areas of the category of the preferences, None if there is none
    visibility               \* what read_category_visibility returned last

vars == <<action, actionAlert, macroAlert, render_complete_macros, timers, stack,
          result, rets, log, pyTrue, actionRemoved, macrosRemoved, handler,
          selected, activeObject, execution_mode, windows, areaType, texts,
          category, visibility>>

\* what the user's edits and the render-complete handler change
edits == <<actionRemoved, macrosRemoved, handler>>
\* the selection state of the scene
scene == <<selected, activeObject>>
\* the windows, the area and the texts of the host
host  == <<execution_mode, windows, areaType, texts>>
\* the category panel
panel == <<category, visibility>>

\* ------------------------------------------------------------ pure helpers
\* split[0] == 'ar.event'
IsEvent(id) == action[id].kind # "cmd"
\* data['Type']
EventType(id) == action[id].kind

\* the filter left out: every macro of the list is played
ActiveMacros_Unfiltered(ms) == ms

\* macros = [macro for macro in macros if macro.active]
ActiveMacros(ms) == SelectSeq(ms, LAMBDA id : action[id].active)

\* only the call of the user filters, a resumed call plays the list as given
PlayedMacros_FreshOnly(ms, fresh) == IF fresh THEN ActiveMacros(ms) ELSE ms

\* the list a call of play goes through: the filter is the first statement of
\* every call, whoever calls
PlayedMacros(ms, fresh) == ActiveMacros(ms)

\* index of the first Render Complete event of the list, 0 if there is none
RECURSIVE FirstRenderComplete(_, _)
FirstRenderComplete(ms, j) ==
    IF j > Len(ms) THEN 0
    ELSE IF IsEvent(ms[j]) /\ EventType(ms[j]) = "Render Complete" THEN j
    ELSE FirstRenderComplete(ms, j + 1)

\* without a matching EndLoop the loop reaches to the end of the list
RECURSIVE FindEndLoop_ToEnd(_, _, _)
FindEndLoop_ToEnd(ms, j, depth) ==
    IF j > Len(ms) THEN Len(ms) + 1
    ELSE LET d == IF action[ms[j]].active /\ IsEvent(ms[j])
                  THEN IF EventType(ms[j]) = "Loop" THEN depth + 1
                       ELSE IF EventType(ms[j]) = "EndLoop" THEN depth - 1
                       ELSE depth
                  ELSE depth
         IN  IF d = 0 THEN j ELSE FindEndLoop_ToEnd(ms, j + 1, d)

\* scan for the EndLoop that matches the Loop before position j; depth is
\* loop_count; 0 when the scan ends with loop_count != 0
RECURSIVE FindEndLoop(_, _, _)
FindEndLoop(ms, j, depth) ==
    IF j > Len(ms) THEN 0
    ELSE LET d == IF action[ms[j]].active /\ IsEvent(ms[j])
                  THEN IF EventType(ms[j]) = "Loop" THEN depth + 1
                       ELSE IF EventType(ms[j]) = "EndLoop" THEN depth - 1
                       ELSE depth
                  ELSE depth
         IN  IF d = 0 THEN j ELSE FindEndLoop(ms, j + 1, d)

\* len(numpy.arange(Startnumber, Endnumber, Stepnumber)) for a positive step
ArangeLen(a, b, st) == IF b > a THEN ((b - a) + (st - 1)) \div st ELSE 0

\* macros[:(-1-i)] of a list of length Len(ms), i the 0-based index of the Timer
\* (pos = i + 1 is its 1-based position)
ExecutedBeforeTimer(ms, pos) == SubSeq(ms, 1, Len(ms) - pos)

\* exec(command): an ar.event payload handed to exec raises NameError
\* (name 'ar' is not defined), a plain command raises when the command does
Raises(id) == IF IsEvent(id) THEN TRUE ELSE action[id].fails
\* the dispatch of the command raises: in INDIVIDUAL mode exec is called once
\* for each selected object, so never without a selection
DispatchRaises(id) == Raises(id) /\ (execution_mode = "INDIVIDUAL" => selected # {})

\* action.macros.find(start_id)
FindMacro(id) == IF id \in 1..Len(action) /\ id \notin macrosRemoved THEN id ELSE 0

Ev(t, id, sl) == [t |-> t, id |-> id, s |-> sl]
Range(q) == {q[k] : k \in DOMAIN q}

\* -------------------------------------------------- the interpreter's state
Cur == [stack |-> stack, queue |-> render_complete_macros, timers |-> timers,
        aAlert |-> actionAlert, mAlert |-> macroAlert, result |-> result,
        rets |-> <<>>, log |-> log]

Commit(s) ==
    /\ stack' = s.stack
    /\ render_complete_macros' = s.queue
    /\ timers' = s.timers
    /\ actionAlert' = s.aAlert
    /\ macroAlert' = s.mAlert
    /\ result' = s.result
    /\ rets' = s.rets
    /\ log' = s.log

Top == stack[Len(stack)]
Pop(s) == [s EXCEPT !.stack = SubSeq(s.stack, 1, Len(s.stack) - 1)]
SetTop(s, f) == [s EXCEPT !.stack[Len(s.stack)] = f]
Logged(s, e) == [s EXCEPT !.log = Append(s.log, e)]
\* only the action is flagged
Alert_ActionOnly(s, id) == [s EXCEPT !.aAlert = TRUE]

\* only the macro is flagged
Alert_MacroOnly(s, id) == [s EXCEPT !.mAlert = s.mAlert \cup {id}]

\* action.alert = macro.alert = True
Alert(s, id) == [s EXCEPT !.aAlert = TRUE, !.mAlert = s.mAlert \cup {id}]

\* A call of play ends with value v ("None", "err": an error is returned,
\* "raise": an exception leaves play).  s.stack holds the callers; fresh tells
\* whether the outermost call is the user's (its value goes to the operator)
\* or a continuation's (run_queued_macros drops the value).
RECURSIVE Return(_, _, _)
Return(s, v, fresh) ==
    LET s1 == [s EXCEPT !.rets = Append(s.rets, v)] IN
    IF s1.stack = <<>>
    THEN IF fresh THEN [s1 EXCEPT !.result = v] ELSE s1
    ELSE LET f == s1.stack[Len(s1.stack)] IN
         CASE f.mode = "tail" -> Return(Pop(s1), v, fresh)
           [] f.mode = "py" ->
                IF v = "raise"
                THEN Return(Pop(Alert(s1, f.macros[f.i])), "err", fresh)
                ELSE s1
           [] f.mode = "count" ->
                IF v = "None" THEN s1 ELSE Return(Pop(s1), v, fresh)
           [] OTHER -> s1

\* Entry of play(context, macros, action, action_type, looping_count,
\* macros_after_loop, macros_before_timer): the filter and the scan for the
\* first Render Complete event.  ms = None stands for iterating over None.
Call(s, ms, lc, after, before, fresh) ==
    IF ms.isNone THEN Return(s, "raise", fresh)
    ELSE
    LET fm == PlayedMacros(ms.list, fresh)
        rc == FirstRenderComplete(fm, 1)
        fr == [macros |-> fm, i |-> 1, looping_count |-> lc,
               macros_after_loop |-> after, macros_before_timer |-> before,
               mode |-> "scan", k |-> 0, fresh |-> fresh]
    IN  IF rc = 0
        THEN [s EXCEPT !.stack = Append(s.stack, fr)]
        ELSE IF rc + 1 > Len(fm)
        THEN Return(s, "raise", fresh)          \* macros[i + 1]: IndexError
        ELSE [s EXCEPT !.stack = Append(s.stack, fr),
                       !.queue = Append(s.queue, <<ActionType, ActionId, fm[rc + 1]>>),
                       !.log = Append(s.log, Ev("enq", fm[rc + 1], <<>>))]

\* --------------------------------------------------------------------- Init
Init ==
    /\ action \in Actions
    /\ actionAlert = FALSE
    /\ macroAlert = {}
    /\ render_complete_macros = <<>>
    /\ timers = <<>>
    /\ stack = <<>>
    /\ result = "idle"
    /\ rets = <<>>
    /\ log = <<>>
    /\ pyTrue = 0
    /\ actionRemoved = FALSE
    /\ macrosRemoved = {}
    /\ handler = "idle"
    /\ execution_mode \in IF action \in IndividualSeqs THEN {"GROUP", "INDIVIDUAL"} ELSE {"GROUP"}
    /\ selected \in IF \/ \E k \in DOMAIN action : action[k].kind = "Select Object"
                       \/ execution_mode = "INDIVIDUAL"
                    THEN SUBSET ViewLayerObjects ELSE {{}}
    /\ activeObject = "A"
    /\ windows \in IF action \in UiSeqs THEN WindowLists ELSE {<<>>}
    /\ areaType \in IF action \in UiSeqs THEN UiTypes ELSE {"VIEW_3D"}
    /\ texts = {}
    /\ category = None
    /\ visibility = Unread

Running  == stack # <<>>
CanLog   == Len(log) < MaxLog
Scanning == Running /\ Top.mode = "scan" /\ Top.i <= Len(Top.macros)
AtEvent(type) == Scanning /\ IsEvent(Top.macros[Top.i]) /\ EventType(Top.macros[Top.i]) = type
AtCommand == Scanning /\ ~IsEvent(Top.macros[Top.i])
Advance(f) == [f EXCEPT !.i = f.i + 1]

\* ------------------------------------------------------------------ actions
\* the user runs the action: play(context, action.macros, action, action_type)
Play ==
    /\ ~Running
    /\ result = "idle"
    /\ Commit(Call([Logged(Cur, Ev("play", 0, <<>>)) EXCEPT !.result = "running"],
                   Some([k \in 1..Len(action) |-> k]), -1, None, None, TRUE))
    /\ UNCHANGED <<action, pyTrue, edits, scene, host, panel>>

\* a registered continuation fires: run_queued_macros -> play
FireTimer ==
    /\ ~Running
    /\ CanLog
    /\ \E t \in 1..Len(timers) :
          LET c == timers[t]
              s == [Logged(Cur, Ev("fire", 0, c.macros)) EXCEPT
                       !.timers = SubSeq(timers, 1, t - 1) \o SubSeq(timers, t + 1, Len(timers))]
          IN  Commit(Call(s, Some(c.macros), c.looping_count, c.macros_after_loop,
                          c.macros_before_timer, FALSE))
    /\ UNCHANGED <<action, pyTrue, edits, scene, host, panel>>

\* the scan goes on behind the Render Complete event
StepRenderComplete_Continue ==
    /\ AtEvent("Render Complete")
    /\ CanLog
    /\ LET f == Top
           s == Logged(Cur, Ev("rc", f.macros[f.i], SubSeq(f.macros, f.i + 1, Len(f.macros))))
       IN  Commit(SetTop(s, Advance(f)))
    /\ UNCHANGED <<action, pyTrue, edits, scene, host, panel>>

\* main scan at a Render Complete event: return
StepRenderComplete ==
    /\ AtEvent("Render Complete")
    /\ CanLog
    /\ LET f == Top
           s == Logged(Cur, Ev("rc", f.macros[f.i], SubSeq(f.macros, f.i + 1, Len(f.macros))))
       IN  Commit(Return(Pop(s), "None", f.fresh))
    /\ UNCHANGED <<action, pyTrue, edits, scene, host, panel>>

\* the continuation is given macros[i:], the Timer event included
TimerContinuation_FromTimer(f) ==
    [macros |-> SubSeq(f.macros, f.i, Len(f.macros)),
     looping_count |-> f.looping_count,
     macros_after_loop |-> f.macros_after_loop,
     macros_before_timer |-> Some(f.macros)]

\* the continuation a Timer event at position f.i registers
TimerContinuation(f) ==
    [macros |-> SubSeq(f.macros, f.i + 1, Len(f.macros)),
     looping_count |-> f.looping_count,
     macros_after_loop |-> f.macros_after_loop,
     macros_before_timer |->
        IF ~f.macros_before_timer.isNone /\ f.macros_before_timer.list # <<>>
        THEN Some(f.macros_before_timer.list \o ExecutedBeforeTimer(f.macros, f.i))
        ELSE Some(f.macros)]

\* main scan at a Timer event: register the continuation and return
StepTimer ==
    /\ AtEvent("Timer")
    /\ CanLog
    /\ LET f == Top
           c == TimerContinuation(f)
           s == [Logged(Cur, Ev("reg", f.macros[f.i], c.macros)) EXCEPT
                    !.timers = Append(timers, c)]
       IN  Commit(Return(Pop(s), "None", f.fresh))
    /\ UNCHANGED <<action, pyTrue, edits, scene, host, panel>>

\* the first macro behind the EndLoop is lost
MacrosAfterLoop_SkipOne(ms, end) == SubSeq(ms, end + 2, Len(ms))

\* macros[end_index + 1:]
MacrosAfterLoop(ms, end) == SubSeq(ms, end + 1, Len(ms))

\* loop_macros = macros[i + 1: end_index]
LoopMacros(ms, i, end) == SubSeq(ms, i + 1, end - 1)

\* main scan at a Loop event: find the matching EndLoop and dispatch on
\* StatementType
StepLoop ==
    /\ AtEvent("Loop")
    /\ LET f   == Top
           id  == f.macros[f.i]
           end == FindEndLoop(f.macros, f.i + 1, 1)
       IN  IF end = 0
           THEN Commit(SetTop(Cur, Advance(f)))                 \* continue
           ELSE IF action[id].stype = "python"
           THEN Commit(SetTop(Cur, [f EXCEPT !.mode = "py"]))
           ELSE IF action[id].stype = "count"
           THEN Commit(SetTop(Cur, [f EXCEPT !.mode = "count",
                    !.k = ArangeLen(action[id].start, action[id].n, action[id].step)]))
           ELSE Commit(Call(SetTop(Cur, [f EXCEPT !.mode = "tail"]),
                            Some(LoopMacros(f.macros, f.i, end)),
                            action[id].n,
                            Some(MacrosAfterLoop(f.macros, end)),
                            f.macros_before_timer, f.fresh))
    /\ UNCHANGED <<action, pyTrue, edits, scene, host, panel>>

\* main scan at an EndLoop event: continue
StepEndLoop ==
    /\ AtEvent("EndLoop")
    /\ Commit(SetTop(Cur, Advance(Top)))
    /\ UNCHANGED <<action, pyTrue, edits, scene, host, panel>>

\* the properties are compared as a list, in the order of the defaults
GuardedLocalPlay_InOrder(m) == m.lp /\ m.props = <<"id=\"\"", "index=-1">>

\* command.startswith("bpy.ops.ar.local_play") and the set of its properties
\* is {id="", index=-1}
GuardedLocalPlay(m) == m.lp /\ Range(m.props) = DefaultProps

\* the macro asks for another ui_type than the area has
OtherUiType(m) == m.ui # "" /\ areaType # m.ui
\* some open window's first area has the ui_type of the macro
WindowFound(m) == \E w \in 1..Len(windows) : windows[w] = m.ui
\* the ui_type the area has while the command runs
CoercedArea(m) == IF OtherUiType(m) /\ ~WindowFound(m) THEN m.ui ELSE areaType
\* area_type: the saved ui_type, "" for None
SavedAreaType(m) == IF OtherUiType(m) /\ ~WindowFound(m) THEN areaType ELSE ""

\* the area is put back only when the command did not raise
RestoredArea_OnSuccess(during, saved, raised) ==
    IF saved # "" /\ ~raised THEN saved ELSE during

\* if temp_area and area_type: temp_area.ui_type = area_type, and in the
\* handler if base_area and area_type: base_area.ui_type = area_type
RestoredArea(during, saved, raised) == IF saved # "" THEN saved ELSE during

\* the selection when execute_individually returns (raisedAt = "") or is left
\* by the exception exec raised for object raisedAt
IndividualSelection(old, raisedAt) == IF raisedAt = "" THEN old ELSE {raisedAt}

\* exec(command) of the macro at position f.i of frame f (in INDIVIDUAL mode
\* its dispatch through execute_individually), and what follows
Execute(s0, f) ==
    LET id == f.macros[f.i]
        s  == Logged(s0, Ev("exec", id,
                            IF OtherUiType(action[id]) THEN <<CoercedArea(action[id])>> ELSE <<>>))
    IN  IF DispatchRaises(id)
        THEN Return(Pop(Alert(s, id)), "err", f.fresh)
        ELSE SetTop(s, [Advance(f) EXCEPT !.mode = "scan"])

\* main scan at a plain command: the guard of local play, the search for a
\* window of the macro's ui_type, the dispatch in the action's execution mode
StepCommand ==
    /\ AtCommand
    /\ CanLog
    /\ LET f  == Top
           id == f.macros[f.i]
           m  == action[id]
       IN  IF GuardedLocalPlay(m)
           THEN /\ Commit(Return(Pop(Alert(Logged(Cur, Ev("guard", id, <<>>)), id)),
                                 "err", f.fresh))
                /\ UNCHANGED <<scene, areaType>>
           ELSE IF OtherUiType(m) /\ WindowFound(m)
           THEN \* temp_screen.area[0]: AttributeError, caught by the handler
                /\ Commit(Return(Pop(Alert(Logged(Cur, Ev("attr", id, <<>>)), id)),
                                 "err", f.fresh))
                /\ UNCHANGED <<scene, areaType>>
           ELSE /\ Commit(Execute(Cur, f))
                /\ areaType' = RestoredArea(CoercedArea(m), SavedAreaType(m), DispatchRaises(id))
                /\ IF execution_mode = "INDIVIDUAL" /\ selected # {}
                   THEN \E o \in selected :
                           /\ selected' = IndividualSelection(selected,
                                              IF DispatchRaises(id) THEN o ELSE "")
                           /\ activeObject' = o
                   ELSE UNCHANGED scene
    /\ UNCHANGED <<action, pyTrue, edits, execution_mode, windows, texts, panel>>

\* while eval(data["PyStatement"]): play(context, loop_macros, action, action_type)
\* the predicate reads the host's state: it yields true, false or raises
PyLoop ==
    /\ Running /\ Top.mode = "py"
    /\ CanLog
    /\ LET f   == Top
           id  == f.macros[f.i]
           end == FindEndLoop(f.macros, f.i + 1, 1)
       IN  \/ /\ pyTrue < MaxPyIter
              /\ pyTrue' = pyTrue + 1
              /\ Commit(Call(Logged(Cur, Ev("true", id, <<>>)),
                             Some(LoopMacros(f.macros, f.i, end)), -1, None, None, f.fresh))
           \/ /\ pyTrue' = pyTrue
              /\ Commit(Execute(Logged(Cur, Ev("false", id, <<>>)), f))
           \/ /\ pyTrue' = pyTrue
              /\ Commit(Return(Pop(Alert(Logged(Cur, Ev("raised", id, <<>>)), id)), "err", f.fresh))
    /\ UNCHANGED <<action, edits, scene, host, panel>>

\* for k in numpy.arange(Startnumber, Endnumber, Stepnumber):
\*     err = play(context, loop_macros, action, action_type)
CountLoop ==
    /\ Running /\ Top.mode = "count"
    /\ CanLog
    /\ LET f   == Top
           end == FindEndLoop(f.macros, f.i + 1, 1)
       IN  IF f.k > 0
           THEN Commit(Call(SetTop(Cur, [f EXCEPT !.k = f.k - 1]),
                            Some(LoopMacros(f.macros, f.i, end)), -1, None, None, f.fresh))
           ELSE Commit(Execute(Cur, f))
    /\ UNCHANGED <<action, pyTrue, edits, scene, host, panel>>

\* the scan is over: looping_count = looping_count - 1 and the restart of
\* the loop, the macros after the loop, or the end of the call
EndOfScan ==
    /\ Running /\ Top.mode = "scan" /\ Top.i > Len(Top.macros)
    /\ LET f  == Top
           lc == f.looping_count - 1
           s  == SetTop(Cur, [f EXCEPT !.mode = "tail"])
       IN  IF lc > 0
           THEN Commit(Call(s, IF f.macros_before_timer.isNone
                               THEN Some(f.macros) ELSE f.macros_before_timer,
                            lc, f.macros_after_loop, None, f.fresh))
           ELSE IF lc = 0
           THEN Commit(Call(s, f.macros_after_loop, -1, None, None, f.fresh))
           ELSE Commit(Return(Pop(Cur), "None", f.fresh))
    /\ UNCHANGED <<action, pyTrue, edits, scene, host, panel>>

\* the previous selection is never cleared
SelectObjects_NoClear(sel, m) == sel \cup (Range(m.objs) \cap DataObjects)

\* the selection after the KeepSelection branch and the loop over Objects
SelectObjects(sel, m) ==
    (IF m.keep THEN sel ELSE {}) \cup (Range(m.objs) \cap DataObjects)

\* only the existence in bpy.data.objects is looked at
MainObjectMissing_DataOnly(m) == m.obj \notin DataObjects

\* bpy.data.objects.get(Object) is None or is not in the view layer
MainObjectMissing(m) == m.obj \notin DataObjects \/ m.obj \notin ViewLayerObjects

\* main scan at a Select Object event
StepSelectObject ==
    /\ AtEvent("Select Object")
    /\ CanLog
    /\ LET f  == Top
           id == f.macros[f.i]
           m  == action[id]
       IN  IF m.obj = ""
           THEN /\ selected' = SelectObjects(selected, m)
                /\ activeObject' = activeObject
                /\ Commit(SetTop(Logged(Cur, Ev("select", id, <<>>)), Advance(f)))
           ELSE IF MainObjectMissing(m)
           THEN /\ selected' = SelectObjects(selected, m)
                /\ activeObject' = activeObject
                /\ Commit(Return(Pop(Alert(Logged(Cur, Ev("missing", id, <<m.obj>>)), id)),
                                 "err", f.fresh))
           ELSE /\ selected' = SelectObjects(selected, m) \cup {m.obj}
                /\ activeObject' = m.obj
                /\ Commit(SetTop(Logged(Cur, Ev("select", id, <<>>)), Advance(f)))
    /\ UNCHANGED <<action, pyTrue, edits, host, panel>>

\* main scan at a Run Script event: the text is created, run as a module and
\* removed; when the script raises the error is returned before the removal
StepRunScript ==
    /\ AtEvent("Run Script")
    /\ CanLog
    /\ LET f  == Top
           id == f.macros[f.i]
           s  == Logged(Cur, Ev("script", id, <<>>))
       IN  IF action[id].fails
           THEN /\ texts' = texts \cup {id}
                /\ Commit(Return(Pop(Alert(s, id)), "err", f.fresh))
           ELSE /\ texts' = texts
                /\ Commit(SetTop(s, Advance(f)))
    /\ UNCHANGED <<action, pyTrue, edits, scene, execution_mode, windows, areaType, panel>>

\* the playback is suspended at a Timer
Suspended == ~Running /\ timers # <<>>

\* while the playback is suspended the user turns off a command that a pending
\* continuation holds (once per playback)
Deactivate ==
    /\ Suspended
    /\ CanLog
    /\ \A k \in 1..Len(log) : log[k].t # "off"
    /\ \E c \in Range(timers) : \E id \in Range(c.macros) :
          /\ action[id].kind = "cmd" /\ action[id].active
          /\ action' = [action EXCEPT ![id].active = FALSE]
          /\ log' = Append(log, Ev("off", id, <<>>))
    /\ rets' = <<>>
    /\ UNCHANGED <<actionAlert, macroAlert, render_complete_macros, timers, stack, result,
                   pyTrue, edits, scene, host, panel>>

\* the playback is at rest and entries wait for the render: the user may edit
AtRest == ~Running /\ timers = <<>> /\ render_complete_macros # <<>>

\* the user removes the action
RemoveAction ==
    /\ AtRest
    /\ ~actionRemoved
    /\ actionRemoved' = TRUE
    /\ UNCHANGED <<action, actionAlert, macroAlert, render_complete_macros, timers, stack,
                   result, rets, log, pyTrue, macrosRemoved, handler, scene, host, panel>>

\* the user removes a macro an entry of the queue names
RemoveMacro ==
    /\ AtRest
    /\ ~actionRemoved
    /\ \E e \in Range(render_complete_macros) :
          /\ e[3] \notin macrosRemoved
          /\ macrosRemoved' = macrosRemoved \cup {e[3]}
    /\ UNCHANGED <<action, actionAlert, macroAlert, render_complete_macros, timers, stack,
                   result, rets, log, pyTrue, actionRemoved, handler, scene, host, panel>>

\* execute_render_complete: the entries are popped from the front; the lookup
\* of a removed action ends the handler with KeyError, an entry whose macro is
\* found ends it with NameError (start is not defined) before anything is
\* registered; an entry whose macro is not found is skipped
RECURSIVE DrainQueue(_)
DrainQueue(q) ==
    IF q = <<>> THEN [queue |-> q, ended |-> "returned"]
    ELSE IF actionRemoved THEN [queue |-> Tail(q), ended |-> "raised"]
    ELSE IF FindMacro(q[1][3]) = 0 THEN DrainQueue(Tail(q))
    ELSE [queue |-> Tail(q), ended |-> "raised"]

RenderCompleteSignal ==
    /\ render_complete_macros # <<>>
    /\ CanLog
    /\ render_complete_macros' = DrainQueue(render_complete_macros).queue
    /\ handler' = DrainQueue(render_complete_macros).ended
    /\ log' = Append(log, Ev("drain", 0, <<>>))
    /\ rets' = <<>>
    /\ UNCHANGED <<action, actionAlert, macroAlert, timers, stack, result, pyTrue,
                   actionRemoved, macrosRemoved, scene, host, panel>>

Next ==
    \/ Play
    \/ FireTimer
    \/ RenderCompleteSignal
    \/ StepRenderComplete
    \/ StepTimer
    \/ StepLoop
    \/ StepEndLoop
    \/ StepCommand
    \/ PyLoop
    \/ CountLoop
    \/ EndOfScan
    \/ StepSelectObject
    \/ RemoveAction
    \/ RemoveMacro
    \/ Deactivate
    \/ StepRunScript

Spec == Init /\ [][Next]_vars

\* -------------------------------------------------- read_category_visibility
\* the pair (area.type, 'all') is appended for every area
AreaPairs_AlwaysAll(area) ==
    [m \in 1..Len(area.modes) |-> <<area.type, area.modes[m]>>] \o <<<<area.type, "all">>>>

\* the pairs one area appends: one for each mode, (area.type, 'all') if
\* there is no mode
AreaPairs(area) ==
    [m \in 1..Len(area.modes) |-> <<area.type, area.modes[m]>>]
        \o (IF Len(area.modes) = 0 THEN <<<<area.type, "all">>>> ELSE <<>>)

\* the loop over category.areas
RECURSIVE VisibilityOf(_)
VisibilityOf(as) ==
    IF as = <<>> THEN <<>> ELSE AreaPairs(as[1]) \o VisibilityOf(Tail(as))

\* read_category_visibility(ActRec_pref, id), cat the category found for id:
\* the list when there is one, else the implicit None
ReadCategoryVisibility(cat) ==
    IF cat.isNone THEN None ELSE Some(VisibilityOf(cat.list))

\* the preferences hold any category or none, nothing is played
CatInit ==
    /\ category \in Categories
    /\ visibility = Unread
    /\ action = <<OK>>
    /\ actionAlert = FALSE
    /\ macroAlert = {}
    /\ render_complete_macros = <<>>
    /\ timers = <<>>
    /\ stack = <<>>
    /\ result = "idle"
    /\ rets = <<>>
    /\ log = <<>>
    /\ pyTrue = 0
    /\ actionRemoved = FALSE
    /\ macrosRemoved = {}
    /\ handler = "idle"
    /\ selected = {}
    /\ activeObject = "A"
    /\ execution_mode = "GROUP"
    /\ windows = <<>>
    /\ areaType = "VIEW_3D"
    /\ texts = {}

\* a call of read_category_visibility
ReadVisibility ==
    /\ ~visibility.read
    /\ visibility' = Returns(ReadCategoryVisibility(category))
    /\ UNCHANGED <<action, actionAlert, macroAlert, render_complete_macros, timers, stack,
                   result, rets, log, pyTrue, edits, scene, host, category>>

CatNext == ReadVisibility
CatSpec == CatInit /\ [][CatNext]_vars

\* playback is over: no pass is running and no continuation is pending
Finished == result \notin {"idle", "running"} /\ ~Running /\ timers = <<>>

\* ----------------------------------------------------- reading the history
IdsOf(q) == [k \in DOMAIN q |-> q[k].id]
\* ids of the macros handed to exec, in the order of the calls
ExecutedIn(h) == IdsOf(SelectSeq(h, LAMBDA e : e.t = "exec"))
Executed == ExecutedIn(log)
\* the play call of the user has returned
Returned == result \notin {"idle", "running"}

RECURSIVE Times(_, _)
Times(q, n) == IF n <= 0 THEN <<>> ELSE q \o Times(q, n - 1)

\* the active macros among positions a..b of the action, in order
ActiveBetween(a, b) ==
    SelectSeq([k \in 1..Len(action) |-> k], LAMBDA k : a <= k /\ k <= b /\ action[k].active)
Positions(kind) == {k \in 1..Len(action) : action[k].kind = kind}
\* every macro of positions P is a plain command that does not fail when run
\* (it does not raise and play does not refuse it as local play)
PlainQuiet(P) ==
    \A k \in P : /\ action[k].kind = "cmd"
                 /\ action[k].active => (~action[k].fails /\ ~GuardedLocalPlay(action[k]))

\* ---------------------------------------------------------------------- C1
NoPseudoEvents == \A k \in 1..Len(action) : action[k].kind = "cmd"

\* C1: for a sequence of plain commands none of which fails, the play call
\* of the user has, when it has returned, handed to exec exactly the macros
\* with active = True, once each and in the order of the sequence (so no
\* macro with active = False), and has returned None.
C1_PlainSequence ==
    (NoPseudoEvents /\ PlainQuiet(1..Len(action)) /\ Returned)
        => /\ Executed = ActiveBetween(1, Len(action))
           /\ result = "None"

C1_Witness ==
    /\ NoPseudoEvents /\ PlainQuiet(1..Len(action)) /\ Returned
    /\ Len(action) = 3 /\ ~action[2].active
    /\ Executed = <<1, 3>>

\* ---------------------------------------------------------------------- C2
SliceAfter(f) == SubSeq(f.macros, f.i + 1, Len(f.macros))

\* the step of the interpreter at a Timer event
TimerStepDefers ==
    (AtEvent("Timer") /\ stack' # stack)
        => /\ Len(timers') = Len(timers) + 1
           /\ SubSeq(timers', 1, Len(timers)) = timers
           /\ timers'[Len(timers')].macros = SliceAfter(Top)
           /\ rets' # <<>> /\ rets'[1] = "None"
           /\ ExecutedIn(log') = Executed
           /\ stack' = SubSeq(stack, 1, Len(stack'))
           /\ Len(stack') < Len(stack)
           /\ actionAlert' = actionAlert /\ macroAlert' = macroAlert

\* a macro of the slice a Timer event has deferred is handed to exec only
\* after a continuation that holds it has fired
NothingBeforeFire ==
    \A k \in 1..Len(log) : \A j \in (k + 1)..Len(log) :
        (log[k].t = "reg" /\ log[j].t = "exec" /\ log[j].id \in Range(log[k].s))
            => \E f \in (k + 1)..(j - 1) :
                  log[f].t = "fire" /\ log[j].id \in Range(log[f].s)

\* C2: the call whose main scan reaches a Timer event at position i registers
\* exactly one continuation, for macros[i+1:], returns None and hands nothing
\* to exec in that step; the macros after the Timer are handed to exec only
\* once a registered continuation holding them has fired.
C2_TimerSuspends == [][TimerStepDefers]_vars /\ []NothingBeforeFire

C2_Witness ==
    \E k \in 1..Len(log) : \E f \in (k + 1)..Len(log) : \E j \in (f + 1)..Len(log) :
        /\ log[k].t = "reg" /\ log[k].s # <<>>
        /\ log[f].t = "fire" /\ log[f].s = log[k].s
        /\ log[j].t = "exec" /\ log[j].id \in Range(log[k].s)

\* ------------------------------------------------------- shapes of actions
SetMin(S) == CHOOSE x \in S : \A y \in S : x <= y
SetMax(S) == CHOOSE x \in S : \A y \in S : y <= x
\* ids of the active plain commands among positions a..b
CmdsBetween(a, b) ==
    SelectSeq([k \in 1..Len(action) |-> k],
              LAMBDA k : a <= k /\ k <= b /\ action[k].active /\ action[k].kind = "cmd")
ExecutedCmds == SelectSeq(Executed, LAMBDA id : action[id].kind = "cmd")

\* the action holds exactly one Loop event and one EndLoop event after it
SoleLoop ==
    /\ Cardinality(Positions("Loop")) = 1
    /\ Cardinality(Positions("EndLoop")) = 1
    /\ SetMin(Positions("Loop")) < SetMin(Positions("EndLoop"))
LoopPos == SetMin(Positions("Loop"))
EndPos  == SetMax(Positions("EndLoop"))
Outside == (1..Len(action)) \ (LoopPos..EndPos)
Inside  == (LoopPos + 1)..(EndPos - 1)
Counted(k) == action[k].stype = "repeat"

\* ---------------------------------------------------------------------- C3
\* one counted loop with RepeatCount >= 1 around plain commands that do not
\* fail, between plain commands that do not fail
SimpleCountedLoop ==
    /\ SoleLoop /\ Counted(LoopPos) /\ action[LoopPos].n >= 1
    /\ PlainQuiet(Outside) /\ PlainQuiet(Inside)

RepeatedBody ==
    CmdsBetween(1, LoopPos - 1)
        \o Times(CmdsBetween(LoopPos + 1, EndPos - 1), action[LoopPos].n)
        \o CmdsBetween(EndPos + 1, Len(action))

NestedCountedLoops ==
    /\ Cardinality(Positions("Loop")) = 2
    /\ Cardinality(Positions("EndLoop")) = 2
    /\ LoopPos < SetMax(Positions("Loop"))
    /\ SetMax(Positions("Loop")) < SetMin(Positions("EndLoop"))
    /\ \A k \in Positions("Loop") : Counted(k) /\ action[k].n >= 1
    /\ PlainQuiet((1..Len(action)) \ (Positions("Loop") \cup Positions("EndLoop")))

InnerLoop == SetMax(Positions("Loop"))
InnerEnd  == SetMin(Positions("EndLoop"))

NestedByPlainLoops ==
    CmdsBetween(1, LoopPos - 1)
        \o Times(CmdsBetween(LoopPos + 1, InnerLoop - 1)
                    \o Times(CmdsBetween(InnerLoop + 1, InnerEnd - 1), action[InnerLoop].n)
                    \o CmdsBetween(InnerEnd + 1, EndPos - 1),
                 action[LoopPos].n)
        \o CmdsBetween(EndPos + 1, Len(action))

\* C4: replaying a counted loop (RepeatCount M) whose Timer-free body holds
\* a counted loop (RepeatCount N) hands to exec what M rounds of the body in
\* a plain loop would, the inner body N times per round, and then the macros
\* behind the outer EndLoop once.
C4_NestedRoundTrip ==
    (NestedCountedLoops /\ Returned) => Executed = NestedByPlainLoops

\* ---------------------------------------------------------------------- C5
PythonLoop ==
    /\ SoleLoop /\ action[LoopPos].stype = "python"
    /\ PlainQuiet(Outside) /\ PlainQuiet(Inside)
FalseAtFirst ==
    /\ \E k \in 1..Len(log) : log[k].t = "false"
    /\ \A k \in 1..Len(log) : log[k].t \notin {"true", "raised"}

\* C5: a python Loop whose predicate is false when first evaluated: the
\* commands between Loop and EndLoop are run zero times, the macros behind
\* the EndLoop are run in order and play returns None.
C5_PythonLoopFalse ==
    (PythonLoop /\ FalseAtFirst /\ Returned)
        => /\ ExecutedCmds = CmdsBetween(1, LoopPos - 1) \o CmdsBetween(EndPos + 1, Len(action))
           /\ result = "None"

\* ---------------------------------------------------------------------- C6
\* one counted loop, RepeatCount >= 1, whose body holds Timer events and
\* plain commands, nothing fails
TimedCountedLoop ==
    /\ SoleLoop /\ Counted(LoopPos) /\ action[LoopPos].n >= 1
    /\ PlainQuiet(Outside)
    /\ \A k \in Inside : action[k].kind = "Timer" \/ PlainQuiet({k})
    /\ \E k \in Inside : action[k].kind = "Timer"

\* C6: a counted loop with RepeatCount N >= 1 and Timer events in its body:
\* when every continuation has fired and playback is over, every command of
\* the body has run N times, in body order in each round, and the macros
\* behind the EndLoop once, after the last round.
C6_TimedLoop ==
    (TimedCountedLoop /\ Finished) => Executed = RepeatedBody

\* ---------------------------------------------------------------------- C7
\* k is in the pass that the user's call started
InFreshPass(k) == \A f \in 1..k : log[f].t # "fire"

\* C7: once a macro has failed, no further macro is handed to exec in that
\* pass, and if the pass is the user's call, that call returns the error.
C7_FirstFailureHalts ==
    /\ \A j \in 1..Len(log) : \A k \in (j + 1)..Len(log) :
          (log[j].t = "exec" /\ DispatchRaises(log[j].id) /\ log[k].t = "exec")
              => \E f \in (j + 1)..(k - 1) : log[f].t = "fire"
    /\ \A j \in 1..Len(log) :
          (log[j].t = "exec" /\ DispatchRaises(log[j].id) /\ InFreshPass(j) /\ Returned)
              => result = "err"

\* ---------------------------------------------------------------------- C8
FailingCommandStep ==
    (AtCommand /\ DispatchRaises(Top.macros[Top.i]) /\ stack' # stack)
        => /\ macroAlert' = macroAlert \cup {Top.macros[Top.i]}
           /\ actionAlert'
           /\ rets' # <<>> /\ rets'[1] = "err"
           /\ (Top.fresh /\ \A d \in 1..(Len(stack) - 1) : stack[d].mode = "tail")
                 => result' = "err"

\* C8: when the plain command handed to exec raises, play sets alert on that
\* macro and on the action, returns the error, and changes the alert flag of
\* no other macro (so of none that precedes the failing one).
C8_FailureAlerts == [][FailingCommandStep]_vars

C8_Witness ==
    /\ result = "err"
    /\ Len(Executed) >= 2
    /\ action[Executed[Len(Executed)]].kind = "cmd"
    /\ macroAlert = {Executed[Len(Executed)]}
    /\ actionAlert

\* ---------------------------------------------------------------------- C9
RenderCompleteStep ==
    (AtEvent("Render Complete") /\ stack' # stack)
        => /\ rets' # <<>> /\ rets'[1] = "None"
           /\ ExecutedIn(log') = Executed
           /\ timers' = timers
           /\ stack' = SubSeq(stack, 1, Len(stack'))
           /\ Len(stack') < Len(stack)
           /\ actionAlert' = actionAlert /\ macroAlert' = macroAlert

\* a macro behind a Render Complete event that the scan has reached is
\* handed to exec only after the render-complete handler has run
NothingBeforeDrain ==
    \A k \in 1..Len(log) : \A j \in (k + 1)..Len(log) :
        (log[k].t = "rc" /\ log[j].t = "exec" /\ log[j].id \in Range(log[k].s))
            => \E d \in (k + 1)..(j - 1) : log[d].t = "drain"

\* C9: the call whose main scan reaches a Render Complete event returns None
\* in that step, hands nothing to exec, starts no further call of play (no
\* restart of a loop) and registers no continuation; the macros behind the
\* event are not run unless the render-complete handler has run in between.
C9_RenderCompleteSuspends == [][RenderCompleteStep]_vars /\ []NothingBeforeDrain

C9_Witness ==
    /\ Returned /\ result = "None" /\ ~Running /\ timers = <<>>
    /\ \E k \in 1..Len(log) : log[k].t = "rc" /\ log[k].s # <<>>
    /\ \E k \in 1..Len(log) : log[k].t = "exec"
    /\ \E k \in 1..Len(log) : log[k].t = "drain"

\* --------------------------------------------------------------------- C10
\* the part of the history that the user's call of play has written
RECURSIVE FreshPart(_)
FreshPart(h) ==
    IF h = <<>> \/ h[1].t = "fire" THEN <<>> ELSE <<h[1]>> \o FreshPart(Tail(h))
Enqueued(h) == IdsOf(SelectSeq(h, LAMBDA e : e.t = "enq"))
ActiveRenderCompletes ==
    {k \in Positions("Render Complete") : action[k].active}
\* the active macros behind the first active Render Complete event
BehindFirstRenderComplete ==
    ActiveBetween(SetMin(ActiveRenderCompletes) + 1, Len(action))

\* C10: a fresh call of play on a sequence with a Render Complete event
\* among its active macros (last position included) appends one triple, for
\* the active macro that follows the first such event, before anything is
\* handed to exec, and nothing more; without such an event it appends nothing.
C10_OneQueueEntry ==
    result # "idle" =>
        IF ActiveRenderCompletes = {}
        THEN Enqueued(FreshPart(log)) = <<>>
        ELSE /\ Len(Enqueued(FreshPart(log))) = 1
             /\ log[2].t = "enq"
             /\ BehindFirstRenderComplete # <<>>
             /\ log[2].id = BehindFirstRenderComplete[1]

\* ------------------------------------------------- C11: draining the queue
\* a run of execute_render_complete
DrainStep == Len(log') = Len(log) + 1 /\ log'[Len(log')].t = "drain"
\* the action and the resume macro of entry e exist
Resumable(e) == ~actionRemoved /\ FindMacro(e[3]) # 0
\* the macros of the action from the resume macro of entry e to the end
ResumeFrom(e) ==
    SelectSeq([k \in 1..Len(action) |-> k], LAMBDA id : id >= e[3] /\ id \notin macrosRemoved)

\* C11: a run of execute_render_complete leaves the queue empty and registers,
\* in the order of the queue, one continuation for every entry whose action and
\* resume macro exist; the continuation plays the action's macros from the
\* resume macro to the end.
C11_DrainResumesAll ==
    [][DrainStep =>
        LET found == SelectSeq(render_complete_macros, Resumable) IN
        /\ render_complete_macros' = <<>>
        /\ Len(timers') = Len(timers) + Len(found)
        /\ \A k \in 1..Len(found) :
              timers'[Len(timers) + k].macros = ResumeFrom(found[k])]_vars

\* ------------------------------------------- C12: entries that cannot resume
\* C12: an entry whose action was removed or whose resume macro is no longer in
\* the action is dropped without effect: a run of execute_render_complete over
\* a queue of such entries empties the queue, registers nothing and ends
\* without an error.
C12_MissIsNoOp ==
    [][(DrainStep /\ \A e \in Range(render_complete_macros) : ~Resumable(e))
        => /\ render_complete_macros' = <<>>
           /\ timers' = timers
           /\ handler' = "returned"]_vars
\* the same for the entries whose macro is gone while the action exists
MissingMacroIsNoOp ==
    [][(DrainStep /\ ~actionRemoved /\ \A e \in Range(render_complete_macros) : ~Resumable(e))
        => /\ render_complete_macros' = <<>>
           /\ timers' = timers
           /\ handler' = "returned"]_vars

\* -------------------------------------------------- C13, C14: Select Object
\* the scan handles the Select Object event it stands at
SelectObjectStep == AtEvent("Select Object") /\ stack' # stack
SelectMacro == action[Top.macros[Top.i]]
\* the names of list os that name an object
Existing(os) == {o \in Range(os) : o \in DataObjects}

\* C13: a Select Object event with KeepSelection = false and no Object field
\* leaves exactly the existing objects named in Objects selected, whatever was
\* selected before; names of no object are skipped and no error is returned.
C13_SelectExactly ==
    [][(SelectObjectStep /\ ~SelectMacro.keep /\ SelectMacro.obj = "")
        => /\ selected' = Existing(SelectMacro.objs)
           /\ activeObject' = activeObject
           /\ rets' = <<>>
           /\ actionAlert' = actionAlert /\ macroAlert' = macroAlert]_vars

\* an event with Objects = [A, X], no Object and KeepSelection = false was
\* handled, A alone is selected and the call returned None
C13_Witness ==
    /\ \E k \in 1..Len(log) :
          /\ log[k].t = "select"
          /\ action[log[k].id].objs = <<"A", "X">>
          /\ ~action[log[k].id].keep /\ action[log[k].id].obj = ""
    /\ selected = {"A"}
    /\ result = "None"

\* position of the failure of a Select Object event in the history, 0 if none
MissingAt == IF \E k \in 1..Len(log) : log[k].t = "missing"
             THEN CHOOSE k \in 1..Len(log) : log[k].t = "missing" ELSE 0

\* C14: a Select Object event whose Object names no object of the active view
\* layer makes play return a failure that names the object, flags the action
\* and the macro, leaves the active object as it was and applies the changes
\* of Objects in full; no macro is executed afterwards.
C14_MissingMainObject ==
    /\ [][(SelectObjectStep /\ SelectMacro.obj # "" /\ SelectMacro.obj \notin ViewLayerObjects)
            => /\ rets' # <<>> /\ rets'[1] = "err"
               /\ log'[Len(log')] = Ev("missing", Top.macros[Top.i], <<SelectMacro.obj>>)
               /\ actionAlert' /\ Top.macros[Top.i] \in macroAlert'
               /\ activeObject' = activeObject
               /\ selected' = (IF SelectMacro.keep THEN selected ELSE {})
                                 \cup Existing(SelectMacro.objs)]_vars
    /\ [](MissingAt # 0 => \A j \in (MissingAt + 1)..Len(log) : log[j].t # "exec")

\* Object = C (not in the view layer), Objects = [A, X], a command behind the
\* event: the call returned the failure, A is selected, A is still active and
\* the command was not executed
C14_Witness ==
    /\ MissingAt # 0
    /\ log[MissingAt].s = <<"C">>
    /\ action[log[MissingAt].id].objs = <<"A", "X">>
    /\ ~action[log[MissingAt].id].keep
    /\ log[MissingAt].id < Len(action)
    /\ result = "err"
    /\ selected = {"A"}
    /\ activeObject = "A"
    /\ actionAlert /\ log[MissingAt].id \in macroAlert

\* ------------------------------------------------ C15: one thread of control
\* C15: a playback has at most one thread of control: the number of running
\* passes plus the number of pending timer continuations never exceeds one.
C15_OneThreadOfControl == (IF Running THEN 1 ELSE 0) + Len(timers) <= 1

\* --------------------------------------------- C16: pre-scan on fresh calls
\* C16: in a playback of a sequence with one Render Complete event only the
\* entry of the user's call appends to the queue (the append directly follows
\* the start of the playback; resumed, recursive and restarting calls append
\* nothing), and the queue never holds two entries for the same macro.
C16_PreScanOnlyFresh ==
    Cardinality(ActiveRenderCompletes) = 1 =>
        /\ \A k \in 1..Len(log) : log[k].t = "enq" => k = 2
        /\ \A i, j \in 1..Len(render_complete_macros) :
              i # j => render_complete_macros[i] # render_complete_macros[j]

\* ------------------------------------------------------- C17: termination
\* nesting depth of position k: Loop events before it less EndLoop events before it
Depth(k) == Cardinality({j \in Positions("Loop") : j < k})
              - Cardinality({j \in Positions("EndLoop") : j < k})
WellNested == /\ \A k \in 1..Len(action) : action[k].kind = "EndLoop" => Depth(k) >= 1
              /\ Depth(Len(action) + 1) = 0
\* non-failing plain commands, Timer events and well-nested counted loops with
\* RepeatCount >= 1
TerminatingShape ==
    /\ \A k \in 1..Len(action) :
          /\ action[k].kind \in {"cmd", "Timer", "Loop", "EndLoop"}
          /\ action[k].active /\ ~action[k].fails
          /\ action[k].kind = "Loop" => Counted(k) /\ action[k].n >= 1
    /\ WellNested
OutsideLoops == {k \in Positions("cmd") : Depth(k) = 0}
Occurrences(q, x) == Cardinality({k \in DOMAIN q : q[k] = x})

\* C17: a playback of non-failing plain commands, Timer events and well-nested
\* counted loops with RepeatCount >= 1 ends with every plain command outside
\* the loops executed exactly once: no such command is ever handed to exec a
\* second time, and when no pass runs and no continuation is pending each of
\* them has been handed to exec.
C17_Terminates ==
    TerminatingShape =>
        \A k \in OutsideLoops :
            /\ Occurrences(Executed, k) <= 1
            /\ Finished => Occurrences(Executed, k) = 1
\* the part of C17 that a Timer before the loop breaks
C17_NeverTwice ==
    TerminatingShape => \A k \in OutsideLoops : Occurrences(Executed, k) <= 1

\* ----------------------------------------- C18: the slice before the Timer
\* C18: when a call of play that carries a non-empty macros_before_timer
\* reaches a Timer event, the continuation it registers carries
\* macros_before_timer followed by the macros of this call before the Timer.
C18_BeforeTimerSlice ==
    [][(/\ AtEvent("Timer") /\ stack' # stack
        /\ ~Top.macros_before_timer.isNone
        /\ Top.macros_before_timer.list # <<>>)
        => /\ Len(timers') = Len(timers) + 1
           /\ timers'[Len(timers')].macros_before_timer =
                 Some(Top.macros_before_timer.list \o SubSeq(Top.macros, 1, Top.i - 1))]_vars

\* --------------------------------------- C19: the macros behind the loop
\* one counted loop with any RepeatCount around plain commands that do not
\* fail, between plain commands that do not fail
CountedLoopAnyCount ==
    /\ SoleLoop /\ Counted(LoopPos)
    /\ PlainQuiet(Outside) /\ PlainQuiet(Inside)

\* C19: for every RepeatCount, 0 and negative values included, the commands
\* behind the EndLoop of a counted loop have each been handed to exec exactly
\* once, in order, when the play call has returned.
C19_AfterLoopRuns ==
    (CountedLoopAnyCount /\ Returned) =>
        SelectSeq(Executed, LAMBDA id : id > EndPos) = CmdsBetween(EndPos + 1, Len(action))

\* ------------------------------------------------- C20: the unmatched Loop
\* one Loop event, no EndLoop event, plain commands that do not fail around it
UnmatchedLoop ==
    /\ Cardinality(Positions("Loop")) = 1
    /\ Positions("EndLoop") = {}
    /\ PlainQuiet((1..Len(action)) \ Positions("Loop"))

\* C20 as stated: a Loop event without a matching EndLoop consumes the rest
\* of the sequence: the scan that met the Loop hands none of the macros behind
\* it to exec as an ordinary macro of its list.
C20_UnmatchedConsumes ==
    [][(UnmatchedLoop /\ AtCommand /\ stack' # stack)
        => \A j \in 1..(Top.i - 1) : action[Top.macros[j]].kind # "Loop"]_vars

\* C20: a Loop event without a matching EndLoop is skipped: when the play call
\* has returned, the active commands before and behind it have been handed to
\* exec once each, in the order of the sequence, and None was returned.
C20_UnmatchedSkipped ==
    (UnmatchedLoop /\ Returned) =>
        /\ Executed = CmdsBetween(1, Len(action))
        /\ result = "None"

\* a command behind the unmatched Loop was executed and the call returned
C20_Witness ==
    /\ UnmatchedLoop /\ Returned
    /\ \E k \in DOMAIN Executed : Executed[k] > LoopPos

\* ------------------------------------------- C21: the filter on resumption
\* position of the event that records the user turning a command off, 0 if none
OffAt == IF \E k \in 1..Len(log) : log[k].t = "off"
         THEN CHOOSE k \in 1..Len(log) : log[k].t = "off" ELSE 0
\* plain commands that do not fail and Timer events only
CommandsAndTimers ==
    \A k \in 1..Len(action) :
        /\ action[k].kind \in {"cmd", "Timer"}
        /\ action[k].kind = "cmd" => ~action[k].fails

\* C21 as stated: the filter is applied once, when the playback starts; a
\* command of a pending slice that is turned off while the playback is
\* suspended is still handed to exec when the playback resumes: at the end of
\* a playback of commands and Timer events it has been executed after it was
\* turned off.
C21_FilteredOnce ==
    (CommandsAndTimers /\ Finished /\ OffAt # 0) =>
        \E j \in (OffAt + 1)..Len(log) : log[j].t = "exec" /\ log[j].id = log[OffAt].id

\* C21: the filter is applied at the entry of every call of play, also of a
\* call resumed from a continuation: a command that was turned off while the
\* playback was suspended is never handed to exec afterwards.
C21_FilteredOnResume ==
    OffAt # 0 =>
        \A j \in (OffAt + 1)..Len(log) : ~(log[j].t = "exec" /\ log[j].id = log[OffAt].id)

\* a command was turned off during the suspension, the playback resumed,
\* executed another command of the slice and ended
C21_Witness ==
    /\ OffAt # 0 /\ Finished
    /\ \E f \in (OffAt + 1)..Len(log) :
          /\ log[f].t = "fire" /\ log[OffAt].id \in Range(log[f].s)
          /\ \E j \in (f + 1)..Len(log) : log[j].t = "exec"

\* ------------------------------------------------ C22: INDIVIDUAL dispatch
\* the scan dispatches the plain command it stands at
CommandStep == AtCommand /\ stack' # stack

\* C22: in INDIVIDUAL mode the objects selected after the dispatch of a plain
\* command are those selected before it, whether every call of exec succeeded
\* or one of them raised.
C22_SelectionRestored ==
    [][(CommandStep /\ execution_mode = "INDIVIDUAL") => selected' = selected]_vars
\* the same for the dispatches in which no call of exec raises
SelectionRestoredOnSuccess ==
    [][(CommandStep /\ execution_mode = "INDIVIDUAL" /\ ~DispatchRaises(Top.macros[Top.i]))
        => selected' = selected]_vars

\* ------------------------------------------------- C23: the coerced ui_type
CommandMacro == action[Top.macros[Top.i]]
\* the macro asks for a ui_type the area does not have and no window has it
CoercionStep ==
    /\ CommandStep
    /\ CommandMacro.ui # "" /\ CommandMacro.ui # areaType
    /\ \A w \in 1..Len(windows) : windows[w] # CommandMacro.ui

\* C23: when a macro asks for a ui_type that the area does not have and no
\* window offers, the command runs with the area set to that ui_type and the
\* area has its former ui_type again when the macro is done, whether the
\* command raised or not; no step of the playback changes the ui_type of
\* the area.
C23_AreaRestored ==
    /\ [][CoercionStep
            => /\ log'[Len(log')] = Ev("exec", Top.macros[Top.i], <<CommandMacro.ui>>)
               /\ areaType' = areaType]_vars
    /\ [][areaType' = areaType]_vars

\* a command that raises ran with the area coerced from VIEW_3D to
\* IMAGE_EDITOR; the call returned the error and the area is VIEW_3D
C23_Witness ==
    /\ result = "err"
    /\ areaType = "VIEW_3D"
    /\ \E k \in 1..Len(log) :
          /\ log[k].t = "exec" /\ log[k].s = <<"IMAGE_EDITOR">>
          /\ action[log[k].id].fails
          /\ log[k].id \in macroAlert

\* -------------------------------------------- C24: a window of the ui_type
\* the macro asks for a ui_type the area does not have and a window has it
WindowStep ==
    /\ CommandStep
    /\ CommandMacro.ui # "" /\ CommandMacro.ui # areaType
    /\ \E w \in 1..Len(windows) : windows[w] = CommandMacro.ui

\* C24: when a macro asks for a ui_type that the area does not have and the
\* first area of some open window has, a command that does not fail is handed
\* to exec, no error is returned and the ui_type of the area is not changed.
C24_RunsInWindow ==
    [][(WindowStep /\ ~CommandMacro.fails)
        => /\ log'[Len(log')].t = "exec" /\ log'[Len(log')].id = Top.macros[Top.i]
           /\ rets' = <<>>
           /\ actionAlert' = actionAlert /\ macroAlert' = macroAlert
           /\ areaType' = areaType]_vars

\* ------------------------------------------------ C25: the transient text
\* C25: when no call of play is running, no text created by a Run Script
\* event is left in bpy.data.texts, whether the script ran or raised.
C25_TextDiscarded == ~Running => texts = {}
\* the same for the playbacks that returned no error
TextDiscardedOnSuccess == (~Running /\ result = "None") => texts = {}

\* ------------------------------------------- C26: local play with defaults
\* position of the event that records the guard of local play, 0 if none
GuardAt == IF \E k \in 1..Len(log) : log[k].t = "guard"
           THEN CHOOSE k \in 1..Len(log) : log[k].t = "guard" ELSE 0
\* macro m calls local play with the two properties id="" and index=-1, in
\* either order
WithDefaultProperties(m) ==
    /\ m.lp /\ Len(m.props) = 2
    /\ \E a, b \in 1..2 : m.props[a] = "id=\"\"" /\ m.props[b] = "index=-1"

\* C26: a command that calls the local play operator with its default
\* properties (id="", index=-1) is not handed to exec: the scan that reaches it
\* returns an error and sets alert on the action and on the macro; the macro is
\* never executed and no macro is executed after the error.
C26_LocalPlayGuard ==
    /\ [][(CommandStep /\ WithDefaultProperties(CommandMacro))
            => /\ ExecutedIn(log') = Executed
               /\ rets' # <<>> /\ rets'[1] = "err"
               /\ actionAlert' /\ Top.macros[Top.i] \in macroAlert'
               /\ UNCHANGED <<selected, activeObject, areaType>>]_vars
    /\ [](\A k \in 1..Len(log) :
             log[k].t = "exec" => ~WithDefaultProperties(action[log[k].id]))
    /\ [](GuardAt # 0 => \A j \in (GuardAt + 1)..Len(log) : log[j].t # "exec")

\* a command was executed, the local play behind it, written with index
\* before id, was held back, the call returned the error and the command
\* behind it was not executed
C26_Witness ==
    /\ GuardAt # 0
    /\ result = "err"
    /\ Executed = <<1>>
    /\ log[GuardAt].id = 2 /\ Len(action) = 3
    /\ action[2].props = <<"index=-1", "id=\"\"">>
    /\ actionAlert /\ macroAlert = {2}

\* ------------------------------------------------------ C27: alert flags
\* C27: in a playback that starts without alerts, whenever a macro of the
\* action has alert set the action has alert set, and no step of the playback
\* (call of play, firing of a continuation, run of the render handler) clears
\* the flag of the action or of a macro.
C27_AlertsTogether ==
    /\ [](macroAlert # {} => actionAlert)
    /\ [][/\ actionAlert => actionAlert'
          /\ macroAlert \subseteq macroAlert']_vars

\* a macro failed and was flagged with the action, and a continuation fired
\* afterwards: the flags are still set
C27_Witness ==
    /\ actionAlert
    /\ \E j, k \in 1..Len(log) :
          /\ j < k
          /\ log[j].t = "exec" /\ log[j].id \in macroAlert
          /\ log[k].t = "fire"

\* ----------------------------------------- C28: read_category_visibility
\* number of pairs the area at position a of the list as stands for
PairsOf(as, a) == IF Len(as[a].modes) = 0 THEN 1 ELSE Len(as[a].modes)
\* number of pairs of the areas before position a
RECURSIVE PairsBefore(_, _)
PairsBefore(as, a) == IF a <= 1 THEN 0 ELSE PairsBefore(as, a - 1) + PairsOf(as, a - 1)

\* C28: for an existing category read_category_visibility returns a list that
\* holds, area after area and mode after mode, the pair (area type, mode
\* type) of every mode and one pair (area type, 'all') for every area
\* without modes, and nothing else; for an id without category it returns
\* None, not the empty list.
C28_CategoryVisibility ==
    visibility.read =>
        IF category.isNone
        THEN visibility.isNone
        ELSE LET as == category.list
                 v  == visibility.list
             IN  /\ ~visibility.isNone
                 /\ Len(v) = PairsBefore(as, Len(as) + 1)
                 /\ \A a \in 1..Len(as) :
                       IF Len(as[a].modes) = 0
                       THEN v[PairsBefore(as, a) + 1] = <<as[a].type, "all">>
                       ELSE \A m \in 1..Len(as[a].modes) :
                               v[PairsBefore(as, a) + m] = <<as[a].type, as[a].modes[m]>>

\* the visibility of a category with an area without modes before an area
\* with two modes was read
C28_Witness ==
    /\ visibility.read /\ ~visibility.isNone
    /\ ~category.isNone /\ Len(category.list) = 2
    /\ category.list[1].modes = <<>>
    /\ Len(category.list[2].modes) = 2
    /\ Len(visibility.list) = 3

====
